---- MODULE Spec2Model ----
(***************************************************************************)
(* Model of the batch orchestration of dax_uc_metric_view_converter.py:    *)
(* create_batches, process_batches_parallel (a ThreadPoolExecutor running  *)
(* process_metrics_batch), save_conversion_results and combine_all_results *)
(* as driven by the __main__ block.                                        *)
(*                                                                         *)
(* Text is modelled line by line.  A line is one of the kinds              *)
(*   "hash"  starts with '#'          "sep"   starts with '='              *)
(*   "blank" empty / whitespace only  "name"  content line with 'name:'    *)
(*   "text"  any other content line                                        *)
(* A file name converted_metrics_<timestamp>.txt is modelled by its        *)
(* timestamp (one-second resolution, a natural number).                    *)
(***************************************************************************)
EXTENDS Integers, Sequences, FiniteSets, TLC

VARIABLES
    units,        \* all_metrics: the input list of conversion units
    batch_size,   \* BATCH_SIZE
    max_workers,  \* MAX_WORKERS
    mpc,          \* position of the main thread
    batches,      \* metric_batches
    pc,           \* pc[i]: position of the task of batch i
    text,         \* text[i]: `results` of task i (the translator's return)
    saved,        \* saved[i]: `saved_file` of task i
    exc,          \* exc[i]: exception stored in the future of batch i
    lock,         \* file_lock: 0 when free, else the batch holding it
    now,          \* wall clock, in seconds
    dir,          \* output folder: file name -> file, for the files present
    all_results,  \* all_results of process_batches_parallel
    combined,     \* what combine_all_results produced
    expression,   \* argument of a call of _format_expression
    formatted     \* what that call returned

vars == <<units, batch_size, max_workers, mpc, batches, pc, text, saved, exc,
          lock, now, dir, all_results, combined, expression, formatted>>

(* ---------------------------- bounds ---------------------------------- *)
MaxUnits == 2
MaxBatchSize == 2
MaxWorkers == 2
MaxClock == 3
MaxLen == 4
MaxFiles == 3
MaxFrags == 3
MaxFragLen == 3

(* --------------------------- sentinels -------------------------------- *)
None == 0                  \* Python None where a file name is expected
Absent == "<absent>"       \* the 'error' key is not in the dict
NoExc == "<none>"          \* the future holds no exception
NoCombined == [path |-> None, nfiles |-> 0, sections |-> <<>>, total |-> 0]

Min(a, b) == IF a < b THEN a ELSE b

RECURSIVE SumSeq(_)
SumSeq(s) == IF s = <<>> THEN 0 ELSE s[1] + SumSeq(Tail(s))

RECURSIVE Flatten(_)
Flatten(ss) == IF ss = <<>> THEN <<>> ELSE ss[1] \o Flatten(Tail(ss))

(* ------------------------ _format_expression -------------------------- *)
\* A string is the sequence of its characters; " " stands for any
\* whitespace character and "x" for any other.
Chars == {"x", " "}

\* the value of measure['expression']: a str, a list of str, or None
NoExpression == [kind |-> "none", s |-> <<>>, parts |-> <<>>]

RECURSIVE lstrip(_)
lstrip(s) == IF s # <<>> /\ Head(s) = " " THEN lstrip(Tail(s)) ELSE s

RECURSIVE rstrip(_)
rstrip(s) ==
    IF s # <<>> /\ s[Len(s)] = " " THEN rstrip(SubSeq(s, 1, Len(s) - 1)) ELSE s

strip_left_only(s) == lstrip(s)

\* str.strip()
strip(s) == rstrip(lstrip(s))

\* sep.join(parts)
RECURSIVE join(_, _)
join(sep, parts) ==
    IF parts = <<>> THEN <<>>
    ELSE IF Len(parts) = 1 THEN parts[1]
    ELSE parts[1] \o sep \o join(sep, Tail(parts))

\* line 85: [part.strip() for part in expression if part.strip()]
clean_parts(parts) ==
    LET kept == SelectSeq(parts, LAMBDA part : strip(part) # <<>>)
    IN  [k \in 1..Len(kept) |-> strip(kept[k])]

\* lines 79-88
format_expression(e) ==
    IF e.kind = "str" THEN strip(e.s)
    ELSE IF e.kind = "list" THEN join(<<" ">>, clean_parts(e.parts))
    ELSE <<>>

(* ------------------------- create_batches ----------------------------- *)
\* range(start, stop, step) for step # 0, as the list of its values
RECURSIVE RangeSeq(_, _, _)
RangeSeq(i, stop, step) ==
    IF step > 0
    THEN IF i < stop THEN <<i>> \o RangeSeq(i + step, stop, step) ELSE <<>>
    ELSE IF i > stop THEN <<i>> \o RangeSeq(i + step, stop, step) ELSE <<>>

Slice_short(list, lo, hi) ==
    SubSeq(list, Min(lo, Len(list)) + 1, Min(hi, Len(list)) - 1)

\* list[lo:hi] for 0 <= lo <= hi: both ends are clipped to len(list)
Slice(list, lo, hi) ==
    SubSeq(list, Min(lo, Len(list)) + 1, Min(hi, Len(list)))

\* range() raises ValueError when its step is zero; a negative step gives
\* an empty range and the loop body never runs
create_batches(metrics_list, bsize) ==
    IF bsize = 0
    THEN [raised |-> TRUE, value |-> <<>>]
    ELSE LET starts == RangeSeq(0, Len(metrics_list), bsize)
         IN  [raised |-> FALSE,
              value  |-> [k \in 1..Len(starts) |->
                             Slice(metrics_list, starts[k], starts[k] + bsize)]]

(* ---------------------- the external translator ----------------------- *)
\* the response format asked of the model: per measure a "- name:" line,
\* an indented comment line and an "expr:" line
RECURSIVE FaithfulText(_)
FaithfulText(k) ==
    IF k = 0 THEN <<>> ELSE <<"name", "text", "text">> \o FaithfulText(k - 1)

\* What the call may return for a batch of k units: the text is produced by
\* an external language model, which the prompt allows to explain what it
\* cannot convert instead of converting it.
TranslatorTexts(k) == {FaithfulText(k), <<"text">>}

(* ---------------------- save_conversion_results ----------------------- *)
Header == <<"hash", "hash", "hash", "blank", "sep", "blank">>

\* the file as it is after a complete write
SavedFile(i, results) == [src |-> i, lines |-> Header \o results]

\* the file as open(filepath, 'w') leaves it when a later write raises:
\* created or truncated, holding some prefix of the header
PartialFiles(i) == {[src |-> i, lines |-> SubSeq(Header, 1, n)] : n \in {0, Len(Header)}}

PutFile(d, name, f) ==
    [n \in (DOMAIN d) \cup {name} |-> IF n = name THEN f ELSE d[n]]

(* ----------------------- combine_all_results -------------------------- *)
IsContentLine(l) == l \in {"name", "text"}
HasName(l) == l = "name"

RECURSIVE SortedNames_desc(_)
SortedNames_desc(S) ==
    IF S = {} THEN <<>>
    ELSE LET m == CHOOSE x \in S : \A y \in S : x >= y
         IN  <<m>> \o SortedNames_desc(S \ {m})

\* sorted(glob.glob(pattern)) as a sequence of file names
RECURSIVE SortedNames(_)
SortedNames(S) ==
    IF S = {} THEN <<>>
    ELSE LET m == CHOOSE x \in S : \A y \in S : x <= y
         IN  <<m>> \o SortedNames(S \ {m})

\* lines 265-269: index (0-based) of the first content line, 0 when none
ContentStart(lines) ==
    LET C == {j \in 1..Len(lines) : IsContentLine(lines[j])}
    IN  IF C = {} THEN 0 ELSE (CHOOSE j \in C : \A k \in C : j <= k) - 1

CountNames(lines) == Cardinality({j \in 1..Len(lines) : HasName(lines[j])})

combine_all_results_always_writes(d, ts) ==
    LET result_files == SortedNames(DOMAIN d)
    IN  [path     |-> ts,
         nfiles   |-> Len(result_files),
         sections |-> [i \in 1..Len(result_files) |->
                          [label |-> i, source |-> result_files[i],
                           src |-> d[result_files[i]].src,
                           body |-> d[result_files[i]].lines,
                           conversions |-> CountNames(d[result_files[i]].lines)]],
         total    |-> 0]

\* lines 230-291; NoCombined stands for `return None`, no file written
combine_all_results(d, ts) ==
    LET result_files == SortedNames(DOMAIN d)
        section(i) ==
            LET lines == d[result_files[i]].lines
            IN  [label  |-> i,
                 source |-> result_files[i],
                 src    |-> d[result_files[i]].src,
                 body   |-> SubSeq(lines, ContentStart(lines) + 1, Len(lines)),
                 conversions |-> CountNames(lines)]
        sections == [i \in 1..Len(result_files) |-> section(i)]
    IN  IF result_files = <<>>
        THEN NoCombined
        ELSE [path     |-> ts,
              nfiles   |-> Len(result_files),
              sections |-> sections,
              total    |-> SumSeq([i \in 1..Len(sections) |-> sections[i].conversions])]

(* ----------------------- process_metrics_batch ------------------------- *)
Batches == 1..Len(batches)

\* tasks a pool thread is executing
Running == {i \in DOMAIN pc : pc[i] \in {"translating", "wait_lock", "writing", "post"}}

PoolHasIdleThread_unbounded == TRUE

\* ThreadPoolExecutor(max_workers): at most max_workers threads take work
PoolHasIdleThread == Cardinality(Running) < max_workers

\* a pool thread takes the next work item off the FIFO work queue
Start(i) ==
    /\ mpc = "running" /\ pc[i] = "queued"
    /\ \A j \in Batches : j < i => pc[j] # "queued"
    /\ PoolHasIdleThread
    /\ pc' = [pc EXCEPT ![i] = "translating"]
    /\ UNCHANGED <<expression, formatted, units, batch_size, max_workers, mpc, batches, text, saved,
                   exc, lock, now, dir, all_results, combined>>

\* line 203 returns
TranslateReturn(i) ==
    /\ pc[i] = "translating"
    /\ \E t \in TranslatorTexts(Len(batches[i])) : text' = [text EXCEPT ![i] = t]
    /\ pc' = [pc EXCEPT ![i] = "wait_lock"]
    /\ UNCHANGED <<expression, formatted, units, batch_size, max_workers, mpc, batches, saved, exc,
                   lock, now, dir, all_results, combined>>

\* line 203 raises: the task ends, the future holds the exception
TranslateRaise(i) ==
    /\ pc[i] = "translating"
    /\ pc' = [pc EXCEPT ![i] = "failed"]
    /\ exc' = [exc EXCEPT ![i] = "translator error"]
    /\ UNCHANGED <<expression, formatted, units, batch_size, max_workers, mpc, batches, text, saved,
                   lock, now, dir, all_results, combined>>

AcquireLock_unguarded(i) ==
    /\ pc[i] = "wait_lock"
    /\ lock' = i
    /\ pc' = [pc EXCEPT ![i] = "writing"]
    /\ UNCHANGED <<expression, formatted, units, batch_size, max_workers, mpc, batches, text, saved,
                   exc, now, dir, all_results, combined>>

\* line 207: with file_lock
AcquireLock(i) ==
    /\ pc[i] = "wait_lock" /\ lock = 0
    /\ lock' = i
    /\ pc' = [pc EXCEPT ![i] = "writing"]
    /\ UNCHANGED <<expression, formatted, units, batch_size, max_workers, mpc, batches, text, saved,
                   exc, now, dir, all_results, combined>>

\* line 208 returns: the file named after the current second is created or
\* truncated and written in full; leaving the with block releases the lock
SaveOk(i) ==
    /\ pc[i] = "writing"
    /\ dir' = PutFile(dir, now, SavedFile(i, text[i]))
    /\ saved' = [saved EXCEPT ![i] = now]
    /\ lock' = 0
    /\ pc' = [pc EXCEPT ![i] = "post"]
    /\ UNCHANGED <<expression, formatted, units, batch_size, max_workers, mpc, batches, text, exc,
                   now, all_results, combined>>

SaveRaiseOpen_keeps_lock(i) ==
    /\ pc[i] = "writing"
    /\ pc' = [pc EXCEPT ![i] = "failed"]
    /\ exc' = [exc EXCEPT ![i] = "write error"]
    /\ UNCHANGED <<expression, formatted, units, batch_size, max_workers, mpc,
                   batches, text, saved, lock, now, dir, all_results, combined>>

\* open() raises: nothing is created; the lock is released on the way out
SaveRaiseOpen(i) ==
    /\ pc[i] = "writing"
    /\ lock' = 0
    /\ pc' = [pc EXCEPT ![i] = "failed"]
    /\ exc' = [exc EXCEPT ![i] = "write error"]
    /\ UNCHANGED <<expression, formatted, units, batch_size, max_workers, mpc, batches, text, saved,
                   now, dir, all_results, combined>>

\* a write() after open() raises: the file stays behind, incomplete
SaveRaisePartial(i) ==
    /\ pc[i] = "writing"
    /\ \E f \in PartialFiles(i) : dir' = PutFile(dir, now, f)
    /\ lock' = 0
    /\ pc' = [pc EXCEPT ![i] = "failed"]
    /\ exc' = [exc EXCEPT ![i] = "write error"]
    /\ UNCHANGED <<expression, formatted, units, batch_size, max_workers, mpc, batches, text, saved,
                   now, all_results, combined>>

\* lines 210-215 run through: the task returns (results, saved_file, count)
PostOk(i) ==
    /\ pc[i] = "post"
    /\ pc' = [pc EXCEPT ![i] = "done"]
    /\ UNCHANGED <<expression, formatted, units, batch_size, max_workers, mpc, batches, text, saved,
                   exc, lock, now, dir, all_results, combined>>

\* os.path.getsize at line 213 raises
PostRaise(i) ==
    /\ pc[i] = "post"
    /\ pc' = [pc EXCEPT ![i] = "failed"]
    /\ exc' = [exc EXCEPT ![i] = "getsize error"]
    /\ UNCHANGED <<expression, formatted, units, batch_size, max_workers, mpc, batches, text, saved,
                   lock, now, dir, all_results, combined>>

\* A second passes.  The clock is read by save_conversion_results only, so
\* its advance is observed while some task is inside the write step.
Tick ==
    /\ lock # 0 /\ now < MaxClock
    /\ now' = now + 1
    /\ UNCHANGED <<expression, formatted, units, batch_size, max_workers, mpc, batches, pc, text,
                   saved, exc, lock, dir, all_results, combined>>

(* ---------------------- process_batches_parallel ---------------------- *)
Collected == {all_results[k].batch_num : k \in 1..Len(all_results)}

FutureRaised_shared(i) == \E j \in Batches : exc[j] # NoExc

\* future.result() raises what the task raised
FutureRaised(i) == exc[i] # NoExc

\* lines 141-146
SuccessOutcome(i) ==
    [batch_num |-> i, file |-> saved[i], count |-> Len(batches[i]), error |-> Absent]

FailureOutcome_keeps_file(i) ==
    [batch_num |-> i, file |-> saved[i], count |-> 0, error |-> exc[i]]

\* lines 155-161
FailureOutcome(i) ==
    [batch_num |-> i, file |-> None, count |-> 0, error |-> exc[i]]

SortByBatchNum_none(s) == s

\* all_results.sort(key=lambda x: x['batch_num']), a stable sort
RECURSIVE SortByBatchNum(_)
SortByBatchNum(s) ==
    IF s = <<>> THEN <<>>
    ELSE LET front == SortByBatchNum(SubSeq(s, 1, Len(s) - 1))
             r == s[Len(s)]
             k == Cardinality({j \in 1..Len(front) : front[j].batch_num <= r.batch_num})
         IN  SubSeq(front, 1, k) \o <<r>> \o SubSeq(front, k + 1, Len(front))

\* main line 315
CreateBatches ==
    /\ mpc = "start"
    /\ LET r == create_batches(units, batch_size)
       IN  IF r.raised
           THEN mpc' = "config_error" /\ batches' = batches
           ELSE mpc' = "batched" /\ batches' = r.value
    /\ UNCHANGED <<expression, formatted, units, batch_size, max_workers, pc, text, saved, exc, lock,
                   now, dir, all_results, combined>>

\* lines 125-131: the pool is created and every batch is submitted
Submit ==
    /\ mpc = "batched"
    /\ mpc' = "running"
    /\ pc' = [i \in Batches |-> "queued"]
    /\ text' = [i \in Batches |-> <<>>]
    /\ saved' = [i \in Batches |-> None]
    /\ exc' = [i \in Batches |-> NoExc]
    /\ UNCHANGED <<expression, formatted, units, batch_size, max_workers, batches, lock, now, dir,
                   all_results, combined>>

\* lines 135-161: as_completed yields a finished future not yet yielded
Collect(i) ==
    /\ mpc = "running"
    /\ pc[i] \in {"done", "failed"} /\ i \notin Collected
    /\ all_results' = Append(all_results,
                             IF FutureRaised(i) THEN FailureOutcome(i)
                                                ELSE SuccessOutcome(i))
    /\ UNCHANGED <<expression, formatted, units, batch_size, max_workers, mpc, batches, pc, text,
                   saved, exc, lock, now, dir, combined>>

\* lines 163-174 with at least one batch: sort and return
Return ==
    /\ mpc = "running" /\ Collected = Batches /\ Len(batches) > 0
    /\ all_results' = SortByBatchNum(all_results)
    /\ mpc' = "returned"
    /\ UNCHANGED <<expression, formatted, units, batch_size, max_workers, batches, pc, text, saved,
                   exc, lock, now, dir, combined>>

\* line 169 with no batch: total_time / len(metric_batches) divides by zero
ReturnRaise ==
    /\ mpc = "running" /\ Collected = Batches /\ Len(batches) = 0
    /\ mpc' = "raised"
    /\ UNCHANGED <<expression, formatted, units, batch_size, max_workers, batches, pc, text, saved,
                   exc, lock, now, dir, all_results, combined>>

(* ------------------------------ __main__ ------------------------------ *)
successful_batches_all == all_results

\* line 331
successful_batches == SelectSeq(all_results, LAMBDA r : r.error = Absent)
\* line 332
failed_batches == SelectSeq(all_results, LAMBDA r : r.error # Absent)

\* lines 355-365
MainCombine ==
    /\ mpc = "returned" /\ successful_batches # <<>>
    /\ combined' = combine_all_results(dir, now)
    /\ mpc' = "combined"
    /\ UNCHANGED <<expression, formatted, units, batch_size, max_workers, batches, pc, text, saved,
                   exc, lock, now, dir, all_results>>

\* lines 366-367
MainNoCombine ==
    /\ mpc = "returned" /\ successful_batches = <<>>
    /\ mpc' = "finished"
    /\ UNCHANGED <<expression, formatted, units, batch_size, max_workers, batches, pc, text, saved,
                   exc, lock, now, dir, all_results, combined>>

(* --------------------------- specifications --------------------------- *)
\* an artifact left in the output folder by an earlier run
LeftoverFile == [src |-> 0, lines |-> Header \o FaithfulText(1)]

Init ==
    /\ units \in {[k \in 1..n |-> k] : n \in 0..MaxUnits}
    /\ batch_size \in (-1)..MaxBatchSize
    /\ max_workers \in 1..MaxWorkers
    /\ mpc = "start"
    /\ batches = <<>>
    /\ pc = <<>> /\ text = <<>> /\ saved = <<>> /\ exc = <<>>
    /\ lock = 0
    /\ now = 2
    /\ dir \in {<<>>, [n \in {1} |-> LeftoverFile]}
    /\ all_results = <<>>
    /\ combined = NoCombined
    /\ expression = NoExpression /\ formatted = <<>>

Next ==
    \/ CreateBatches
    \/ Submit
    \/ \E i \in DOMAIN pc : Start(i)
    \/ \E i \in DOMAIN pc : TranslateReturn(i)
    \/ \E i \in DOMAIN pc : TranslateRaise(i)
    \/ \E i \in DOMAIN pc : AcquireLock(i)
    \/ \E i \in DOMAIN pc : SaveOk(i)
    \/ \E i \in DOMAIN pc : SaveRaiseOpen(i)
    \/ \E i \in DOMAIN pc : SaveRaisePartial(i)
    \/ \E i \in DOMAIN pc : PostOk(i)
    \/ \E i \in DOMAIN pc : PostRaise(i)
    \/ Tick
    \/ \E i \in DOMAIN pc : Collect(i)
    \/ Return
    \/ ReturnRaise
    \/ MainCombine
    \/ MainNoCombine

Spec == Init /\ [][Next]_vars

\* what the pool thread running the task of batch i can do next
WorkerStep(i) ==
    /\ i \in DOMAIN pc
    /\ \/ Start(i) \/ TranslateReturn(i) \/ TranslateRaise(i) \/ AcquireLock(i)
       \/ SaveOk(i) \/ SaveRaiseOpen(i) \/ SaveRaisePartial(i)
       \/ PostOk(i) \/ PostRaise(i)

\* what the main thread can do next
MainStep ==
    \/ CreateBatches \/ Submit \/ (\E i \in DOMAIN pc : Collect(i))
    \/ Return \/ ReturnRaise \/ MainCombine \/ MainNoCombine

\* a run in an empty output folder, with the largest pool, that starts one
\* second before the clock's bound
InitFair ==
    /\ units \in {[k \in 1..n |-> k] : n \in 0..MaxUnits}
    /\ batch_size \in (-1)..MaxBatchSize
    /\ max_workers = MaxWorkers
    /\ mpc = "start"
    /\ batches = <<>>
    /\ pc = <<>> /\ text = <<>> /\ saved = <<>> /\ exc = <<>>
    /\ lock = 0
    /\ now = MaxClock - 1
    /\ dir = <<>>
    /\ all_results = <<>>
    /\ combined = NoCombined
    /\ expression = NoExpression /\ formatted = <<>>

\* Every thread that can run is eventually run, and every translator call
\* eventually returns or raises; nothing is assumed of the clock.
FairSpec ==
    /\ InitFair /\ [][Next]_vars
    /\ WF_vars(MainStep)
    /\ \A i \in 1..MaxUnits : WF_vars(WorkerStep(i))

\* create_batches alone, on lists with repeated elements
UnitLists == UNION {[1..n -> {1, 2}] : n \in 0..MaxLen}

InitSplit ==
    /\ units \in UnitLists
    /\ batch_size \in (-1)..MaxBatchSize
    /\ max_workers = 1
    /\ mpc = "start"
    /\ batches = <<>>
    /\ pc = <<>> /\ text = <<>> /\ saved = <<>> /\ exc = <<>>
    /\ lock = 0
    /\ now = 2
    /\ dir = <<>>
    /\ all_results = <<>>
    /\ combined = NoCombined
    /\ expression = NoExpression /\ formatted = <<>>

NextSplit == CreateBatches

SpecSplit == InitSplit /\ [][NextSplit]_vars

\* combine_all_results called on its own, on a folder holding any files
\* that match converted_metrics_*.txt
ArtifactTexts ==
    {<<>>, <<"text">>, FaithfulText(1), <<"hash", "name", "text">>, <<"blank", "name">>}

ArtifactFiles == {SavedFile(0, t) : t \in ArtifactTexts} \cup PartialFiles(0)

Directories == UNION {[S -> ArtifactFiles] : S \in SUBSET (1..MaxFiles)}

InitCombine ==
    /\ units = <<>>
    /\ batch_size = 1
    /\ max_workers = 1
    /\ mpc = "call_combine"
    /\ batches = <<>>
    /\ pc = <<>> /\ text = <<>> /\ saved = <<>> /\ exc = <<>>
    /\ lock = 0
    /\ now = MaxFiles + 1
    /\ dir \in Directories
    /\ all_results = <<>>
    /\ combined = NoCombined
    /\ expression = NoExpression /\ formatted = <<>>

\* combine_all_results(), lines 218-291
CombineCall ==
    /\ mpc = "call_combine"
    /\ combined' = combine_all_results(dir, now)
    /\ mpc' = "combine_returned"
    /\ UNCHANGED <<expression, formatted, units, batch_size, max_workers, batches, pc, text, saved,
                   exc, lock, now, dir, all_results>>

NextCombine == CombineCall

SpecCombine == InitCombine /\ [][NextCombine]_vars

\* a run of the entry point, or a call of combine_all_results on its own
InitRunOrCombine == Init \/ InitCombine

NextRunOrCombine == Next \/ CombineCall

SpecRunOrCombine == InitRunOrCombine /\ [][NextRunOrCombine]_vars

\* _format_expression called on its own
Fragments == UNION {[1..n -> Chars] : n \in 0..MaxFragLen}

Expressions ==
    {[kind |-> "str", s |-> f, parts |-> <<>>] : f \in Fragments}
    \cup {[kind |-> "list", s |-> <<>>, parts |-> ps] :
              ps \in UNION {[1..n -> Fragments] : n \in 0..MaxFrags}}
    \cup {NoExpression}

InitFormat ==
    /\ units = <<>>
    /\ batch_size = 1
    /\ max_workers = 1
    /\ mpc = "call_format"
    /\ batches = <<>>
    /\ pc = <<>> /\ text = <<>> /\ saved = <<>> /\ exc = <<>>
    /\ lock = 0
    /\ now = 2
    /\ dir = <<>>
    /\ all_results = <<>>
    /\ combined = NoCombined
    /\ expression \in Expressions /\ formatted = <<>>

\* read_metrics_to_simple_json line 52
FormatCall ==
    /\ mpc = "call_format"
    /\ formatted' = format_expression(expression)
    /\ mpc' = "format_returned"
    /\ UNCHANGED <<expression, units, batch_size, max_workers, batches, pc,
                   text, saved, exc, lock, now, dir, all_results, combined>>

NextFormat == FormatCall

SpecFormat == InitFormat /\ [][NextFormat]_vars

TypeOK ==
    /\ mpc \in {"start", "config_error", "batched", "running", "returned",
                "raised", "combined", "finished", "call_combine",
                "combine_returned", "call_format", "format_returned"}
    /\ lock \in {0} \cup Batches
    /\ DOMAIN pc = DOMAIN text /\ DOMAIN pc = DOMAIN saved /\ DOMAIN pc = DOMAIN exc

(* ============================== claims ================================ *)
Returned == mpc \in {"returned", "combined", "finished"}

IsSuccess(r) == r.error = Absent

\* the outcomes recorded for batch i
OutcomesOf(i) == {all_results[k] : k \in {j \in 1..Len(all_results) : all_results[j].batch_num = i}}

(* C1: the list returned by process_batches_parallel has one outcome per   *)
(* submitted batch and is sorted by batch_num, so that outcome k is the    *)
(* outcome of batch k, whatever the order in which the workers completed.  *)
C1_OrderedComplete ==
    Returned =>
        /\ Len(all_results) = Len(batches)
        /\ \A k \in 1..Len(all_results) : all_results[k].batch_num = k

\* batch 2 has written its artifact a second before batch 1 did
C1_Witness ==
    /\ mpc = "returned" /\ Len(batches) = 2
    /\ saved[2] # None /\ saved[1] > saved[2]

(* C2: any two distinct batches that both succeed are given different file *)
(* paths, and no worker's artifact is overwritten by another worker's.     *)
C2_UniqueArtifacts ==
    Returned =>
        \A i, j \in Batches :
            (i # j /\ pc[i] = "done" /\ pc[j] = "done") =>
                /\ saved[i] # saved[j]
                /\ dir[saved[i]].src = i

(* C3: a failing batch never changes the outcome of another batch: when    *)
(* the orchestrator returns every batch has completed, and a batch is      *)
(* reported as a success exactly when its own worker did not raise.        *)
C3_FailureIsolated ==
    Returned =>
        \A i \in Batches :
            /\ pc[i] \in {"done", "failed"}
            /\ \A r \in OutcomesOf(i) : IsSuccess(r) <=> pc[i] = "done"
            /\ OutcomesOf(i) # {}

\* one batch failed and a sibling succeeded
C3_Witness ==
    /\ mpc = "returned"
    /\ \E i, j \in Batches : pc[i] = "failed" /\ pc[j] = "done"

(* C4: at every instant at most max_workers tasks are executing            *)
(* process_metrics_batch (translator call, write step or what follows).    *)
C4_BoundedPool == Cardinality(Running) <= max_workers

\* the pool is full while a batch is still waiting in the queue
C4_Witness ==
    /\ Cardinality(Running) = max_workers
    /\ \E i \in DOMAIN pc : pc[i] = "queued"

(* C5: the unit counts of all returned outcomes, successes and failures    *)
(* together, add up to the number of input conversion units.               *)
C5_CountsAddUp ==
    Returned =>
        SumSeq([k \in 1..Len(all_results) |-> all_results[k].count]) = Len(units)

(* C6: for a positive batch_size create_batches returns ceil(n/batch_size) *)
(* batches, all of length batch_size except possibly the last, which is    *)
(* non-empty and no longer, and their concatenation is the input list.     *)
C6_SplitExact ==
    (mpc = "batched" /\ batch_size > 0) =>
        /\ Len(batches) = (Len(units) + batch_size - 1) \div batch_size
        /\ \A k \in 1..Len(batches) :
              /\ k < Len(batches) => Len(batches[k]) = batch_size
              /\ Len(batches[k]) >= 1 /\ Len(batches[k]) <= batch_size
        /\ Flatten(batches) = units

\* a list with a repeated element that does not divide evenly
C6_Witness ==
    /\ mpc = "batched" /\ batch_size = 2 /\ Len(units) = 3
    /\ units[1] = units[2]
    /\ Len(batches) = 2 /\ Len(batches[2]) = 1

(* C7: for a non-empty input and batch_size <= 0, create_batches fails     *)
(* with a configuration error and never returns a batch list.              *)
C7_NonPositiveRejected ==
    (mpc # "start" /\ Len(units) > 0 /\ batch_size <= 0) => mpc = "config_error"

(* C8: when every worker succeeded, the total of the combined file's       *)
(* summary footer equals the sum of the count fields of the outcomes.      *)
C8_TotalMatchesCounts ==
    (mpc = "combined" /\ failed_batches = <<>>) =>
        combined.total = SumSeq([k \in 1..Len(all_results) |-> all_results[k].count])

(* C9: for a batch reported as a failure no artifact of that batch is in   *)
(* the output directory, and the combined file has no section from it.     *)
C9_FailedLeavesNothing ==
    Returned =>
        \A k \in 1..Len(all_results) :
            ~IsSuccess(all_results[k]) =>
                /\ \A n \in DOMAIN dir : dir[n].src # all_results[k].batch_num
                /\ \A s \in 1..Len(combined.sections) :
                       combined.sections[s].src # all_results[k].batch_num

(* C10: an exception raised while processing a batch becomes a failure     *)
(* outcome carrying its description and does not propagate out of          *)
(* process_batches_parallel; every outcome has exactly one of an artifact  *)
(* path and a failure reason.                                              *)
C10_FailuresAreData ==
    /\ \A k \in 1..Len(all_results) :
          LET r == all_results[k]
          IN  /\ (r.file # None) # (r.error # Absent)
              /\ exc[r.batch_num] # NoExc => r.error = exc[r.batch_num]
              /\ exc[r.batch_num] = NoExc => r.file = saved[r.batch_num]
    /\ (\E i \in DOMAIN exc : exc[i] # NoExc) => mpc # "raised"
    /\ Returned => \A i \in Batches : pc[i] = "failed" => OutcomesOf(i) # {}

\* a worker raised after its artifact was written, and the run returned
C10_Witness ==
    /\ mpc = "returned"
    /\ \E i \in Batches : exc[i] = "getsize error" /\ saved[i] # None

(* C11: at most one worker is inside the write step at any instant, and   *)
(* it is the holder of file_lock; translator calls are not serialised by   *)
(* the lock and overlap with another worker's write.                       *)
C11_WriteExclusive ==
    /\ Cardinality({i \in DOMAIN pc : pc[i] = "writing"}) <= 1
    /\ \A i \in DOMAIN pc : pc[i] = "writing" <=> lock = i
    /\ \A i \in DOMAIN pc : pc[i] = "translating" => lock # i

\* one worker is writing while another is inside its translator call
C11_Witness ==
    \E i, j \in DOMAIN pc : pc[i] = "writing" /\ lock = i /\ pc[j] = "translating"

(* C12: the entry point runs the combine step exactly when some outcome is *)
(* a success, and only after process_batches_parallel has returned, when   *)
(* no worker is translating or writing any more.                           *)
C12_CombineAfterReturn ==
    /\ mpc = "combined" =>
          /\ \E k \in 1..Len(all_results) : IsSuccess(all_results[k])
          /\ \A i \in Batches : pc[i] \in {"done", "failed"}
          /\ Len(all_results) = Len(batches)
    /\ mpc = "finished" =>
          /\ \A k \in 1..Len(all_results) : ~IsSuccess(all_results[k])
          /\ combined = NoCombined

\* combine has run although one of the batches failed
C12_Witness ==
    /\ mpc = "combined"
    /\ \E k \in 1..Len(all_results) : ~IsSuccess(all_results[k])
    /\ combined.path # None

(* C13: when the output directory holds no per-batch artifact,             *)
(* combine_all_results returns None and writes no file; a run in which no  *)
(* batch succeeds ends without a combined artifact.                        *)
C13_NothingToCombine ==
    /\ (mpc \in {"combined", "combine_returned"} /\ DOMAIN dir = {}) =>
           combined = NoCombined
    /\ (mpc \in {"combined", "finished"} /\ successful_batches = <<>>) =>
           combined = NoCombined

\* combine_all_results has been called on an empty folder
C13_Witness ==
    /\ mpc = "combine_returned" /\ DOMAIN dir = {}
    /\ combined.path = None

(* C15: a run on empty input is not an error: create_batches returns an    *)
(* empty batch list and process_batches_parallel, given no batch, returns  *)
(* an empty outcome list without raising.                                  *)
C15_EmptyInputOk ==
    (Len(units) = 0 /\ batch_size > 0 /\ mpc \notin {"start", "batched", "running"}) =>
        /\ mpc \in {"returned", "combined", "finished"}
        /\ all_results = <<>>

\* number of lines of the leading header block: the maximal leading run of
\* lines that are blank or start with '#' or '='
HeaderBlockLen(lines) ==
    Cardinality({j \in 1..Len(lines) : \A k \in 1..j : ~IsContentLine(lines[k])})

(* C16: of every artifact it combines, combine_all_results appends exactly *)
(* the lines after the leading header block and no header line, also when  *)
(* nothing follows the header block.                                       *)
C16_HeaderStripped ==
    \A s \in 1..Len(combined.sections) :
        LET lines == dir[combined.sections[s].source].lines
        IN  combined.sections[s].body =
                SubSeq(lines, HeaderBlockLen(lines) + 1, Len(lines))

(* C18: in a run in which all batches succeed (each under a file name of   *)
(* its own, in a folder that was empty), the section labelled BATCH i of   *)
(* the combined artifact holds the translation of batch i.                 *)
C18_SectionIsBatch ==
    ( /\ mpc = "combined" /\ failed_batches = <<>>
      /\ Len(combined.sections) = Len(batches)
      /\ \A n \in DOMAIN dir : dir[n].src # 0 ) =>
        \A s \in 1..Len(combined.sections) :
            combined.sections[s].src = combined.sections[s].label

(* C18, amended: the section labelled BATCH i holds the body of the i-th   *)
(* per-batch artifact of the folder in ascending file-name order,          *)
(* whichever batch wrote that file.                                        *)
C18_SectionIsIthFile ==
    mpc = "combined" =>
        /\ combined.nfiles = Cardinality(DOMAIN dir)
        /\ Len(combined.sections) = combined.nfiles
        /\ \A s \in 1..Len(combined.sections) :
              LET sec == combined.sections[s]
              IN  /\ sec.label = s
                  /\ sec.source \in DOMAIN dir
                  /\ sec.src = dir[sec.source].src
                  /\ Cardinality({n \in DOMAIN dir : n < sec.source}) = s - 1

\* both batches succeeded and BATCH 1 of the combined file is batch 2's text
C18_Witness ==
    /\ mpc = "combined" /\ failed_batches = <<>>
    /\ Len(combined.sections) = 2
    /\ combined.sections[1].src = 2 /\ combined.sections[2].src = 1

(* C19: the combined artifact holds only artifacts written by this run:    *)
(* an artifact left by an earlier run is neither concatenated nor counted, *)
(* and it is left in place unchanged.                                      *)
C19_OnlyThisRun ==
    mpc = "combined" =>
        /\ \A s \in 1..Len(combined.sections) : combined.sections[s].src \in Batches
        /\ combined.total =
              SumSeq([s \in 1..Len(combined.sections) |->
                        IF combined.sections[s].src \in Batches
                        THEN combined.sections[s].conversions ELSE 0])
        /\ 1 \in DOMAIN dir => dir[1] = LeftoverFile

\* the fragment holds a character that is not whitespace
NonBlank(f) == \E k \in 1..Len(f) : f[k] # " "

\* the fragment from its first to its last non-whitespace character
Trimmed(f) ==
    LET ink == {k \in 1..Len(f) : f[k] # " "}
    IN  IF ink = {} THEN <<>>
        ELSE SubSeq(f, CHOOSE a \in ink : \A b \in ink : a <= b,
                       CHOOSE a \in ink : \A b \in ink : a >= b)

(* C14: for a list, _format_expression drops the fragments that are empty  *)
(* or whitespace only, trims the others and joins them in order with one   *)
(* space; for a single string it returns the trimmed string.               *)
C14_FormatExpression ==
    mpc = "format_returned" =>
        /\ expression.kind = "list" =>
              LET kept == SelectSeq(expression.parts, NonBlank)
              IN  formatted =
                      Flatten([k \in 1..Len(kept) |->
                                  IF k = 1 THEN Trimmed(kept[k])
                                  ELSE <<" ">> \o Trimmed(kept[k])])
        /\ expression.kind = "str" => formatted = Trimmed(expression.s)

\* ["x", "", " x "] has been formatted to "x x"
C14_Witness ==
    /\ mpc = "format_returned"
    /\ expression.kind = "list"
    /\ expression.parts = <<(<<"x">>), (<<>>), (<<" ", "x", " ">>)>>
    /\ formatted = <<"x", " ", "x">>

(* C17: under fair scheduling, with translator calls that return or raise, *)
(* every submitted batch gets a completed outcome and control leaves       *)
(* process_batches_parallel; file_lock is held only by a task inside the   *)
(* write step (it is released on every way out, also when the write        *)
(* raises), so no worker waits for it forever.                             *)
C17_RunFinishes ==
    /\ [](\A i \in DOMAIN pc : lock = i => pc[i] = "writing")
    /\ (mpc = "running") ~>
          ( /\ mpc \in {"returned", "raised", "combined", "finished"}
            /\ Collected = Batches
            /\ \A i \in DOMAIN pc : pc[i] \in {"done", "failed"} )

\* a write raised, and afterwards another batch wrote its artifact
C17_Witness ==
    /\ mpc = "returned"
    /\ \E i, j \in Batches :
          /\ exc[i] = "write error" /\ pc[j] = "done"
          /\ \E n \in DOMAIN dir : dir[n].src = i /\ saved[j] > n

====
